---- MODULE Spec2Model ----
(***************************************************************************)
(* A model of the Karel grid world of src/karel/_karel.py: the value types *)
(* Direction, AvenueAndStreet and Karel, the World aggregate with its      *)
(* constructor, resize and attribute setters, the cell and robot           *)
(* operations, and the tiered name table that exec_from runs a program     *)
(* against.                                                                *)
(*                                                                         *)
(* Python lists are sequences (storage index k of the source is index k+1  *)
(* here).  An operation that can raise returns a record [w, err]: the      *)
(* world it leaves behind and "ok" or the exception it raised.             *)
(***************************************************************************)
EXTENDS Integers, Sequences, FiniteSets, TLC

VARIABLES world, last, steps, run

vars == <<world, last, steps, run>>

\* ---------------------------------------------------------------- bounds
MaxAve == 2
MaxStreet == 2
MaxBalls == 1
MaxSteps == 2

\* ------------------------------------------------------------ exceptions
OK == "ok"
\* ValueError raised by AvenueAndStreet.__new__ for a negative coordinate
ErrNegativeCoordinate == "ValueError: Avenue and street must both be non-negative"
\* ValueError raised by _2d_arr_size
ErrNot2D == "ValueError: not a valid 2D array"
\* ValueError raised by _ensure_size
ErrEnsureSize == "ValueError: Expected elements"
\* ValueError raised for an empty grid
ErrEmpty2D == "ValueError: empty 2D array"
\* ValueError raised by World.__init__ for a robot out of bounds
ErrInvalidKarel == "ValueError: Invalid Karel position"
\* ValueError raised by the size setter
ErrZeroSize == "ValueError: New size cannot have 0 as a dimension"
ErrKarelOutOfBounds == "ValueError: Karel would be out of bounds"
\* ValueError raised by the karel setter
ErrKarelPosition == "ValueError: Karel's new position out of range"
\* ValueError raised by set_ball_count
ErrNegativeBalls == "ValueError: Tried to put a negative number of balls"
\* ValueError raised by move
ErrBlockedMove == "ValueError: Tried to move Karel into a wall"
\* ValueError raised by globals
ErrInvalidMode == "ValueError: not a valid mode"
\* IndexError raised by the position checks of the cell operations
ErrPositionOutOfRange == "IndexError: Position out of range"
\* IndexError raised by Python itself when a list is indexed past its end
ErrListIndex == "IndexError: list index out of range"
\* TypeError raised by _helpers.typefilt
ErrTypeError == "TypeError: must be a value of the expected type"
\* NameError raised by Python when a program uses a name its namespace lacks
ErrNameError == "NameError: name is not defined"

\* ------------------------------------------------------------- Direction
Direction == {"north", "south", "east", "west"}

\* A left turn that turns clockwise.
turned_left_clockwise(d) ==
    CASE d = "north" -> "east"
      [] d = "south" -> "west"
      [] d = "east"  -> "south"
      [] d = "west"  -> "north"

turned_left(d) ==
    CASE d = "north" -> "west"
      [] d = "south" -> "east"
      [] d = "east"  -> "north"
      [] d = "west"  -> "south"

turned_right(d) ==
    CASE d = "north" -> "east"
      [] d = "south" -> "west"
      [] d = "east"  -> "south"
      [] d = "west"  -> "north"

turned_around(d) ==
    CASE d = "north" -> "south"
      [] d = "south" -> "north"
      [] d = "east"  -> "west"
      [] d = "west"  -> "east"

\* ------------------------------------------------------- AvenueAndStreet
\* An optional argument: None, or a value.
None == [none |-> TRUE]
Some(v) == [none |-> FALSE, val |-> v]

\* The value AvenueAndStreet(avenue, street) once __new__ has accepted it.
Pos(a, s) == [avenue |-> a, street |-> s]

\* AvenueAndStreet.__new__: rejects a negative coordinate.
AvenueAndStreet(a, s) ==
    IF a < 0 \/ s < 0
    THEN [val |-> Pos(0, 0), err |-> ErrNegativeCoordinate]
    ELSE [val |-> Pos(a, s), err |-> OK]

with_avenue(p, a) == AvenueAndStreet(a, p.street)

with_street(p, s) == AvenueAndStreet(p.avenue, s)

\* A step that takes north for south and east for west.
moved_backwards(p, d) ==
    CASE d = "north" -> with_street(p, p.street - 1)
      [] d = "south" -> with_street(p, p.street + 1)
      [] d = "east"  -> with_avenue(p, p.avenue - 1)
      [] d = "west"  -> with_avenue(p, p.avenue + 1)

moved(p, d) ==
    CASE d = "north" -> with_street(p, p.street + 1)
      [] d = "south" -> with_street(p, p.street - 1)
      [] d = "east"  -> with_avenue(p, p.avenue + 1)
      [] d = "west"  -> with_avenue(p, p.avenue - 1)

\* self._in_bounds(position), self being a size
_in_bounds(self, position) ==
    position.avenue < self.avenue /\ position.street < self.street

\* ----------------------------------------------------------------- Karel
Karel(position, direction) == [position |-> position, direction |-> direction]

\* The default argument Karel(AvenueAndStreet(0, 0)): facing east.
DefaultKarel == Karel(Pos(0, 0), "east")

\* ------------------------------------------------------------------- RGB
RGB(r, g, b) == [r |-> r, g |-> g, b |-> b]

White == RGB(255, 255, 255)

\* A Python str, to tell it from an RGB value.
Str(s) == [str |-> s]

\* The color table of _color.py.
ColorNames ==
    {"red", "green", "blue", "yellow", "cyan", "orange", "white", "black",
     "gray", "purple"}

color(name) ==
    CASE name = "red"    -> RGB(255, 0, 0)
      [] name = "green"  -> RGB(0, 255, 0)
      [] name = "blue"   -> RGB(0, 0, 255)
      [] name = "yellow" -> RGB(255, 255, 0)
      [] name = "cyan"   -> RGB(0, 255, 255)
      [] name = "orange" -> RGB(255, 165, 0)
      [] name = "white"  -> RGB(255, 255, 255)
      [] name = "black"  -> RGB(0, 0, 0)
      [] name = "gray"   -> RGB(204, 204, 204)
      [] name = "purple" -> RGB(155, 48, 255)

\* RGB.from_str: an RGB is returned as it is, a name of the color table gives
\* its entry (the other string forms are not used by the model's inputs).
from_str(c) == IF "str" \in DOMAIN c THEN color(c.str) ELSE c

\* -------------------------------------------------------- Python lists
\* [x] * n
Repeat(x, n) == [k \in 1..n |-> x]

\* del list[:k] for k > 0
DelFirst(list, k) == SubSeq(list, k + 1, Len(list))

\* del list[-k:] for k > 0
DelLast(list, k) == SubSeq(list, 1, Len(list) - k)

\* list[i][j] exists (i, j are the source's 0-based indices, never negative here)
HasIndex(grid, i, j) ==
    /\ 0 <= i /\ i < Len(grid)
    /\ 0 <= j /\ j < Len(grid[i + 1])

\* _2d_arr_size: the row count and the length of the rows (None for no row);
\* ValueError when the rows differ in length.
_2d_arr_size(arr) ==
    IF \E k \in 1..Len(arr) : Len(arr[k]) # Len(arr[1])
    THEN [isize |-> Len(arr), jsize |-> None, err |-> ErrNot2D]
    ELSE [isize |-> Len(arr),
          jsize |-> IF Len(arr) = 0 THEN None ELSE Some(Len(arr[1])),
          err   |-> OK]

\* _ensure_size: arr has isize rows of jsize entries each, or ValueError.
_ensure_size(arr, isize, jsize) ==
    IF Len(arr) # isize THEN ErrEnsureSize
    ELSE IF \E k \in 1..Len(arr) : Len(arr[k]) # jsize THEN ErrEnsureSize
    ELSE OK

\* ----------------------------------------------------------------- World
\* The object's slots.
WorldOf(karel, ball_counts, horizontal_walls, vertical_walls, colors) ==
    [karel            |-> karel,
     ball_counts      |-> ball_counts,
     horizontal_walls |-> horizontal_walls,
     vertical_walls   |-> vertical_walls,
     colors           |-> colors]

\* World.__init__(karel=, ball_counts=, horizontal_walls=, vertical_walls=,
\* colors=): the optional grids are None or Some(grid).  The slots are assigned
\* in the source's order; on a raise the slots not yet assigned are left <<>>.
__init__(karel, ball_counts, horizontal_walls, vertical_walls, colors) ==
    LET sz    == _2d_arr_size(ball_counts)
        isize == sz.isize
        jsize == IF sz.jsize.none THEN 0 ELSE sz.jsize.val
        hw    == IF horizontal_walls.none
                 THEN Repeat(Repeat(FALSE, jsize), isize - 1)
                 ELSE horizontal_walls.val
        vw    == IF vertical_walls.none
                 THEN Repeat(Repeat(FALSE, jsize - 1), isize)
                 ELSE vertical_walls.val
        cs    == IF colors.none
                 THEN Repeat(Repeat(from_str(Str("white")), jsize), isize)
                 ELSE [i \in 1..Len(colors.val) |->
                          [j \in 1..Len(colors.val[i]) |-> from_str(colors.val[i][j])]]
        w1    == WorldOf(karel, ball_counts, <<>>, <<>>, <<>>)
        w2    == [w1 EXCEPT !.horizontal_walls = hw]
        w3    == [w2 EXCEPT !.vertical_walls = vw]
        w4    == [w3 EXCEPT !.colors = cs]
    IN  IF sz.err # OK THEN [w |-> w1, err |-> sz.err]
        ELSE IF isize = 0 \/ sz.jsize.none \/ jsize = 0
        THEN [w |-> w1, err |-> ErrEmpty2D]
        ELSE IF _ensure_size(w2.horizontal_walls, isize - 1, jsize) # OK
        THEN [w |-> w2, err |-> ErrEnsureSize]
        \* the two checks below are given self._horizontal_walls, as in the source
        ELSE IF _ensure_size(w3.horizontal_walls, isize, jsize - 1) # OK
        THEN [w |-> w3, err |-> ErrEnsureSize]
        ELSE IF _ensure_size(w4.horizontal_walls, isize, jsize) # OK
        THEN [w |-> w4, err |-> ErrEnsureSize]
        ELSE IF ~_in_bounds(Pos(Len(w4.ball_counts[1]), Len(w4.ball_counts)),
                            karel.position)
        THEN [w |-> w4, err |-> ErrInvalidKarel]
        ELSE [w |-> w4, err |-> OK]

\* World.size (getter): (columns, rows) of the ball-count grid.
size(w) == Pos(Len(w.ball_counts[1]), Len(w.ball_counts))

\* The four steps of the size setter, each reading self.size afresh.
ShrinkStreet(w, new) ==
    IF new.street < size(w).street
    THEN LET to_delete == size(w).street - new.street
         IN  [w EXCEPT !.ball_counts      = DelFirst(@, to_delete),
                       !.horizontal_walls = DelFirst(@, to_delete),
                       !.vertical_walls   = DelFirst(@, to_delete),
                       !.colors           = DelFirst(@, to_delete)]
    ELSE w

\* A resize that adds the new streets at the south edge (the end of storage).
GrowStreet_south(w, new) ==
    IF new.street > size(w).street
    THEN LET to_add == new.street - size(w).street
             avenue == size(w).avenue
         IN  [w EXCEPT !.ball_counts      = @ \o Repeat(Repeat(0, avenue), to_add),
                       !.horizontal_walls = @ \o Repeat(Repeat(FALSE, avenue), to_add),
                       !.vertical_walls   = @ \o Repeat(Repeat(FALSE, avenue - 1), to_add),
                       !.colors           = @ \o Repeat(Repeat(White, avenue), to_add)]
    ELSE w

GrowStreet(w, new) ==
    IF new.street > size(w).street
    THEN LET to_add == new.street - size(w).street
             avenue == size(w).avenue
         IN  [w EXCEPT !.ball_counts      = Repeat(Repeat(0, avenue), to_add) \o @,
                       !.horizontal_walls = Repeat(Repeat(FALSE, avenue), to_add) \o @,
                       !.vertical_walls   = Repeat(Repeat(FALSE, avenue - 1), to_add) \o @,
                       !.colors           = Repeat(Repeat(White, avenue), to_add) \o @]
    ELSE w

\* An avenue shrink that also runs for an unchanged avenue count: Python's
\* "del row[-0:]" empties the row.
ShrinkAvenue_inclusive(w, new) ==
    IF new.avenue <= size(w).avenue
    THEN LET to_delete == size(w).avenue - new.avenue
             cut(grid) == [i \in 1..Len(grid) |->
                              IF to_delete = 0 THEN <<>> ELSE DelLast(grid[i], to_delete)]
         IN  [w EXCEPT !.ball_counts      = cut(@),
                       !.horizontal_walls = cut(@),
                       !.vertical_walls   = cut(@),
                       !.colors           = cut(@)]
    ELSE w

ShrinkAvenue(w, new) ==
    IF new.avenue < size(w).avenue
    THEN LET to_delete == size(w).avenue - new.avenue
             cut(grid) == [i \in 1..Len(grid) |-> DelLast(grid[i], to_delete)]
         IN  [w EXCEPT !.ball_counts      = cut(@),
                       !.horizontal_walls = cut(@),
                       !.vertical_walls   = cut(@),
                       !.colors           = cut(@)]
    ELSE w

GrowAvenue(w, new) ==
    IF new.avenue > size(w).avenue
    THEN LET to_add == new.avenue - size(w).avenue
             ext(grid, x) == [i \in 1..Len(grid) |-> grid[i] \o Repeat(x, to_add)]
         IN  [w EXCEPT !.ball_counts      = ext(@, 0),
                       !.horizontal_walls = ext(@, FALSE),
                       !.vertical_walls   = ext(@, FALSE),
                       !.colors           = ext(@, White)]
    ELSE w

\* A size setter that checks the street dimension only.
size_setter_street_only(w, new) ==
    IF new.street = 0
    THEN [w |-> w, err |-> ErrZeroSize]
    ELSE IF ~(w.karel.position.street < new.street)
    THEN [w |-> w, err |-> ErrKarelOutOfBounds]
    ELSE [w   |-> GrowAvenue(ShrinkAvenue(GrowStreet(ShrinkStreet(w, new), new), new), new),
          err |-> OK]

\* A size setter whose checks come after the first step of the resize.
size_setter_late_check(w, new) ==
    IF new.street = 0 \/ new.avenue = 0
    THEN [w |-> ShrinkStreet(w, [new EXCEPT !.street = 1]), err |-> ErrZeroSize]
    ELSE IF ~_in_bounds(new, w.karel.position)
    THEN [w |-> ShrinkStreet(w, new), err |-> ErrKarelOutOfBounds]
    ELSE [w   |-> GrowAvenue(ShrinkAvenue(GrowStreet(ShrinkStreet(w, new), new), new), new),
          err |-> OK]

\* World.size (setter): new is an AvenueAndStreet.
size_setter(w, new) ==
    IF new.street = 0 \/ new.avenue = 0
    THEN [w |-> w, err |-> ErrZeroSize]
    ELSE IF ~_in_bounds(new, w.karel.position)
    THEN [w |-> w, err |-> ErrKarelOutOfBounds]
    ELSE [w   |-> GrowAvenue(ShrinkAvenue(GrowStreet(ShrinkStreet(w, new), new), new), new),
          err |-> OK]

\* A storage index that puts street 0 in row 0.
_list_index_south_first(w, position) ==
    [i |-> position.street, j |-> position.avenue]

\* World._list_index: the storage (row, column) of a position, 0-based.
_list_index(w, position) ==
    [i |-> size(w).street - position.street - 1, j |-> position.avenue]

\* World.karel (setter)
karel_setter(w, new) ==
    IF ~_in_bounds(size(w), new.position)
    THEN [w |-> w, err |-> ErrKarelPosition]
    ELSE [w |-> [w EXCEPT !.karel = new], err |-> OK]

\* World.ball_counts (setter): new is None or Some(grid).
ball_counts_setter(w, new) ==
    IF new.none
    THEN [w   |-> [w EXCEPT !.ball_counts =
                       Repeat(Repeat(0, size(w).street), size(w).avenue)],
          err |-> OK]
    ELSE LET sz == _2d_arr_size(new.val)
         IN  IF sz.err # OK THEN [w |-> w, err |-> sz.err]
             ELSE IF sz.isize = 0 \/ sz.jsize.none \/ sz.jsize.val = 0
             THEN [w |-> w, err |-> ErrEmpty2D]
             ELSE LET r == size_setter(w, Pos(sz.jsize.val, sz.isize))
                  IN  IF r.err # OK THEN r
                      ELSE [w |-> [r.w EXCEPT !.ball_counts = new.val], err |-> OK]

\* A setter that stores the grid without resizing the World to it.
horizontal_walls_setter_no_resize(w, new) ==
    IF new.none
    THEN [w   |-> [w EXCEPT !.horizontal_walls =
                       Repeat(Repeat(FALSE, size(w).street), size(w).avenue - 1)],
          err |-> OK]
    ELSE LET sz == _2d_arr_size(new.val)
         IN  IF sz.err # OK THEN [w |-> w, err |-> sz.err]
             ELSE [w |-> [w EXCEPT !.horizontal_walls = new.val], err |-> OK]

\* World.horizontal_walls (setter)
horizontal_walls_setter(w, new) ==
    IF new.none
    THEN [w   |-> [w EXCEPT !.horizontal_walls =
                       Repeat(Repeat(FALSE, size(w).street), size(w).avenue - 1)],
          err |-> OK]
    ELSE LET sz    == _2d_arr_size(new.val)
             jsize == IF sz.isize = 0 \/ sz.jsize.none
                      THEN size(w).avenue ELSE sz.jsize.val
         IN  IF sz.err # OK THEN [w |-> w, err |-> sz.err]
             ELSE LET r == size_setter(w, Pos(jsize, sz.isize + 1))
                  IN  IF r.err # OK THEN r
                      ELSE [w |-> [r.w EXCEPT !.horizontal_walls = new.val], err |-> OK]

\* World.vertical_walls (setter)
vertical_walls_setter(w, new) ==
    IF new.none
    THEN [w   |-> [w EXCEPT !.vertical_walls =
                       Repeat(Repeat(FALSE, size(w).street - 1), size(w).avenue)],
          err |-> OK]
    ELSE LET sz == _2d_arr_size(new.val)
         IN  IF sz.err # OK THEN [w |-> w, err |-> sz.err]
             ELSE IF sz.isize = 0 \/ sz.jsize.none
             THEN [w |-> w, err |-> ErrEmpty2D]
             ELSE LET r == size_setter(w, Pos(sz.jsize.val + 1, sz.isize))
                  IN  IF r.err # OK THEN r
                      ELSE [w |-> [r.w EXCEPT !.vertical_walls = new.val], err |-> OK]

\* World.colors (setter): the entries go through RGB.from_str.
colors_setter(w, new) ==
    IF new.none
    THEN [w   |-> [w EXCEPT !.colors =
                       Repeat(Repeat(White, size(w).street), size(w).avenue)],
          err |-> OK]
    ELSE LET cs == [i \in 1..Len(new.val) |->
                       [j \in 1..Len(new.val[i]) |-> from_str(new.val[i][j])]]
             sz == _2d_arr_size(cs)
         IN  IF sz.err # OK THEN [w |-> w, err |-> sz.err]
             ELSE IF sz.isize = 0 \/ sz.jsize.none \/ sz.jsize.val = 0
             THEN [w |-> w, err |-> ErrEmpty2D]
             ELSE LET r == size_setter(w, Pos(sz.jsize.val, sz.isize))
                  IN  IF r.err # OK THEN r
                      ELSE [w |-> [r.w EXCEPT !.colors = cs], err |-> OK]

\* ------------------------------------------------ World: cell operations
\* "if position is None: position = self.karel.position"
PositionOr(w, position) == IF position.none THEN w.karel.position ELSE position.val

DirectionOr(w, direction) == IF direction.none THEN w.karel.direction ELSE direction.val

\* World.ball_count: [val, err]
ball_count(w, position) ==
    LET p  == PositionOr(w, position)
        ij == _list_index(w, p)
    IN  IF ~_in_bounds(size(w), p) THEN [val |-> 0, err |-> ErrPositionOutOfRange]
        ELSE IF ~HasIndex(w.ball_counts, ij.i, ij.j) THEN [val |-> 0, err |-> ErrListIndex]
        ELSE [val |-> w.ball_counts[ij.i + 1][ij.j + 1], err |-> OK]

\* A set_ball_count that validates the count before it looks at the position.
set_ball_count_validates_first(w, new, position) ==
    LET p  == PositionOr(w, position)
        ij == _list_index(w, p)
    IN  IF new < 0 THEN [w |-> w, err |-> ErrNegativeBalls]
        ELSE IF ~_in_bounds(size(w), p) THEN [w |-> w, err |-> ErrPositionOutOfRange]
        ELSE IF ~HasIndex(w.ball_counts, ij.i, ij.j) THEN [w |-> w, err |-> ErrListIndex]
        ELSE [w |-> [w EXCEPT !.ball_counts[ij.i + 1][ij.j + 1] = new], err |-> OK]

\* A set_ball_count that stores the count before it rejects a negative one.
set_ball_count_late_check(w, new, position) ==
    LET p  == PositionOr(w, position)
        ij == _list_index(w, p)
    IN  IF ~_in_bounds(size(w), p) THEN [w |-> w, err |-> ErrPositionOutOfRange]
        ELSE IF ~HasIndex(w.ball_counts, ij.i, ij.j) THEN [w |-> w, err |-> ErrListIndex]
        ELSE [w   |-> [w EXCEPT !.ball_counts[ij.i + 1][ij.j + 1] = new],
              err |-> IF new < 0 THEN ErrNegativeBalls ELSE OK]

\* World.set_ball_count
set_ball_count(w, new, position) ==
    LET p  == PositionOr(w, position)
        ij == _list_index(w, p)
    IN  IF ~_in_bounds(size(w), p) THEN [w |-> w, err |-> ErrPositionOutOfRange]
        ELSE IF new < 0 THEN [w |-> w, err |-> ErrNegativeBalls]
        ELSE IF ~HasIndex(w.ball_counts, ij.i, ij.j) THEN [w |-> w, err |-> ErrListIndex]
        ELSE [w |-> [w EXCEPT !.ball_counts[ij.i + 1][ij.j + 1] = new], err |-> OK]

\* World.color_at: [val, err]
color_at(w, position) ==
    LET p  == PositionOr(w, position)
        ij == _list_index(w, p)
    IN  IF ~_in_bounds(size(w), p) THEN [val |-> White, err |-> ErrPositionOutOfRange]
        ELSE IF ~HasIndex(w.colors, ij.i, ij.j) THEN [val |-> White, err |-> ErrListIndex]
        ELSE [val |-> w.colors[ij.i + 1][ij.j + 1], err |-> OK]

\* World.paint: new must be an RGB (typefilt), a str is a TypeError.
paint(w, new, position) ==
    LET p  == PositionOr(w, position)
        ij == _list_index(w, p)
    IN  IF ~_in_bounds(size(w), p) THEN [w |-> w, err |-> ErrPositionOutOfRange]
        ELSE IF "str" \in DOMAIN new THEN [w |-> w, err |-> ErrTypeError]
        ELSE IF ~HasIndex(w.colors, ij.i, ij.j) THEN [w |-> w, err |-> ErrListIndex]
        ELSE [w |-> [w EXCEPT !.colors[ij.i + 1][ij.j + 1] = new], err |-> OK]

\* The storage entry that is_blocked and set_is_blocked address: north becomes
\* south of the row above (i - 1), west becomes east of the column before
\* (j - 1).  [horizontal, i, j], 0-based.
WallIndex(w, p, d) ==
    LET ij == _list_index(w, p)
    IN  [horizontal |-> d \in {"north", "south"},
         i |-> IF d = "north" THEN ij.i - 1 ELSE ij.i,
         j |-> IF d = "west" THEN ij.j - 1 ELSE ij.j]

\* A range check that lets the index one past the last stored wall through.
WallInRange_inclusive(w, e) ==
    IF e.horizontal
    THEN 0 <= e.i /\ e.i <= size(w).street - 1
    ELSE 0 <= e.j /\ e.j <= size(w).avenue - 1

\* "0 <= i < self.size.street - 1" resp. "0 <= j < self.size.avenue - 1"
WallInRange(w, e) ==
    IF e.horizontal
    THEN 0 <= e.i /\ e.i < size(w).street - 1
    ELSE 0 <= e.j /\ e.j < size(w).avenue - 1

\* World.is_blocked: [val, err]
is_blocked(w, position, direction) ==
    LET p == PositionOr(w, position)
        d == DirectionOr(w, direction)
        e == WallIndex(w, p, d)
        g == IF e.horizontal THEN w.horizontal_walls ELSE w.vertical_walls
    IN  IF ~_in_bounds(size(w), p) THEN [val |-> TRUE, err |-> ErrPositionOutOfRange]
        ELSE IF ~WallInRange(w, e) THEN [val |-> TRUE, err |-> OK]
        ELSE IF ~HasIndex(g, e.i, e.j) THEN [val |-> TRUE, err |-> ErrListIndex]
        ELSE [val |-> g[e.i + 1][e.j + 1], err |-> OK]

\* World.is_clear
is_clear(w, position, direction) ==
    LET r == is_blocked(w, position, direction)
    IN  [val |-> ~r.val, err |-> r.err]

\* A set_is_blocked that writes the whole storage row of the wall.
set_is_blocked_whole_row(w, wall, position, direction) ==
    LET p == PositionOr(w, position)
        d == DirectionOr(w, direction)
        e == WallIndex(w, p, d)
        g == IF e.horizontal THEN w.horizontal_walls ELSE w.vertical_walls
    IN  IF ~_in_bounds(size(w), p) THEN [w |-> w, err |-> ErrPositionOutOfRange]
        ELSE IF ~WallInRange(w, e) THEN [w |-> w, err |-> ErrPositionOutOfRange]
        ELSE IF ~HasIndex(g, e.i, e.j) THEN [w |-> w, err |-> ErrListIndex]
        ELSE IF e.horizontal
        THEN [w |-> [w EXCEPT !.horizontal_walls[e.i + 1] = [j \in DOMAIN @ |-> wall]],
              err |-> OK]
        ELSE [w |-> [w EXCEPT !.vertical_walls[e.i + 1] = [j \in DOMAIN @ |-> wall]],
              err |-> OK]

\* World.set_is_blocked
set_is_blocked(w, wall, position, direction) ==
    LET p == PositionOr(w, position)
        d == DirectionOr(w, direction)
        e == WallIndex(w, p, d)
        g == IF e.horizontal THEN w.horizontal_walls ELSE w.vertical_walls
    IN  IF ~_in_bounds(size(w), p) THEN [w |-> w, err |-> ErrPositionOutOfRange]
        ELSE IF ~WallInRange(w, e) THEN [w |-> w, err |-> ErrPositionOutOfRange]
        ELSE IF ~HasIndex(g, e.i, e.j) THEN [w |-> w, err |-> ErrListIndex]
        ELSE IF e.horizontal
        THEN [w |-> [w EXCEPT !.horizontal_walls[e.i + 1][e.j + 1] = wall], err |-> OK]
        ELSE [w |-> [w EXCEPT !.vertical_walls[e.i + 1][e.j + 1] = wall], err |-> OK]

\* World.set_is_clear
set_is_clear(w, wall, position, direction) ==
    set_is_blocked(w, ~wall, position, direction)

\* World.copy: a new World constructed from the robot and the four grids;
\* [w, err], w the new object.
copy(w) ==
    __init__(w.karel, w.ball_counts, Some(w.horizontal_walls),
             Some(w.vertical_walls), Some(w.colors))

\* ----------------------------------------------- World: robot operations
\* World.move_karel
move_karel(w, position) == karel_setter(w, Karel(position, w.karel.direction))

\* World.rotate_karel
rotate_karel(w, direction) == karel_setter(w, Karel(w.karel.position, direction))

\* World.turn_left
turn_left(w) == karel_setter(w, Karel(w.karel.position, turned_left(w.karel.direction)))

\* A right turn that turns left.
turn_right_leftward(w) == turn_left(w)

\* World.turn_right
turn_right(w) == karel_setter(w, Karel(w.karel.position, turned_right(w.karel.direction)))

\* World.turn_around
turn_around(w) == karel_setter(w, Karel(w.karel.position, turned_around(w.karel.direction)))

\* World.put_ball
put_ball(w, position) ==
    LET p == Some(PositionOr(w, position))
        c == ball_count(w, p)
    IN  IF c.err # OK THEN [w |-> w, err |-> c.err]
        ELSE set_ball_count(w, c.val + 1, p)

\* A take_ball that stores the count less one without validating it.
take_ball_unchecked(w, position) ==
    LET p  == PositionOr(w, position)
        c  == ball_count(w, Some(p))
        ij == _list_index(w, p)
    IN  IF c.err # OK THEN [w |-> w, err |-> c.err]
        ELSE [w |-> [w EXCEPT !.ball_counts[ij.i + 1][ij.j + 1] = c.val - 1], err |-> OK]

\* A take_ball that leaves an empty cell empty instead of failing.
take_ball_clamping(w, position) ==
    LET p == Some(PositionOr(w, position))
        c == ball_count(w, p)
    IN  IF c.err # OK THEN [w |-> w, err |-> c.err]
        ELSE IF c.val = 0 THEN [w |-> w, err |-> OK]
        ELSE set_ball_count(w, c.val - 1, p)

\* World.take_ball
take_ball(w, position) ==
    LET p == Some(PositionOr(w, position))
        c == ball_count(w, p)
    IN  IF c.err # OK THEN [w |-> w, err |-> c.err]
        ELSE set_ball_count(w, c.val - 1, p)

\* World.balls_present: [val, err]
balls_present(w, position) ==
    LET c == ball_count(w, Some(PositionOr(w, position)))
    IN  [val |-> c.val # 0, err |-> c.err]

\* World.no_balls_present
no_balls_present(w, position) ==
    LET r == balls_present(w, position)
    IN  [val |-> ~r.val, err |-> r.err]

front_is_clear(w) == is_clear(w, None, None)

left_is_clear(w) == is_clear(w, None, Some(turned_left(w.karel.direction)))

right_is_clear(w) == is_clear(w, None, Some(turned_right(w.karel.direction)))

front_is_blocked(w) == is_blocked(w, None, None)

left_is_blocked(w) == is_blocked(w, None, Some(turned_left(w.karel.direction)))

right_is_blocked(w) == is_blocked(w, None, Some(turned_right(w.karel.direction)))

\* World.move
move(w) ==
    LET b == front_is_blocked(w)
        m == moved(w.karel.position, w.karel.direction)
    IN  IF b.err # OK THEN [w |-> w, err |-> b.err]
        ELSE IF b.val THEN [w |-> w, err |-> ErrBlockedMove]
        ELSE IF m.err # OK THEN [w |-> w, err |-> m.err]
        ELSE karel_setter(w, Karel(m.val, w.karel.direction))

\* World.facing_north .. not_facing_west
facing_north(w) == w.karel.direction = "north"

facing_south(w) == w.karel.direction = "south"

facing_east(w) == w.karel.direction = "east"

facing_west(w) == w.karel.direction = "west"

not_facing_north(w) == ~facing_north(w)

not_facing_south(w) == ~facing_south(w)

not_facing_east(w) == ~facing_east(w)

not_facing_west(w) == ~facing_west(w)

\* World.color_is: [val, err]
color_is(w, c) ==
    LET r == color_at(w, None)
    IN  [val |-> r.val = from_str(c), err |-> r.err]

\* ---------------------------------------------------------- initial worlds
\* The street of storage row i (0-based) in a grid of a world with S streets.
StreetOfRow(S, i) == S - 1 - i

\* Whether a cell, or the edge north resp. east of it, is marked in a pattern.
Marked(a, s) == (a + s) % 2 = 1

\* A world of size (A, S) as the constructor is documented to build it, with
\* the robot k.  Pattern 0 is the default (no balls, no walls, all white); in
\* pattern 1 the marked cells hold MaxBalls balls and are red, and the marked
\* cells have a wall south resp. east of them.
PatternWorld(A, S, k, pattern) ==
    LET on(i, j) == pattern = 1 /\ Marked(j, StreetOfRow(S, i))
    IN  WorldOf(k,
            [i \in 1..S |-> [j \in 1..A |-> IF on(i - 1, j - 1) THEN MaxBalls ELSE 0]],
            [i \in 1..(S - 1) |-> [j \in 1..A |-> on(i - 1, j - 1)]],
            [i \in 1..S |-> [j \in 1..(A - 1) |-> on(i - 1, j - 1)]],
            [i \in 1..S |-> [j \in 1..A |-> IF on(i - 1, j - 1) THEN color("red") ELSE White]])

InitWorlds ==
    {PatternWorld(A, S, DefaultKarel, pattern) :
        A \in 1..MaxAve, S \in 1..MaxStreet, pattern \in {0, 1}}

\* The run of exec_from: none in progress.  caught: the program handled the
\* exception of its last call (try/except in the program text).
NoRun == [status |-> "idle", mode |-> "", namespace |-> <<>>, applied |-> {},
          caught |-> FALSE]

Called(op, arg, err) == [op |-> op, arg |-> arg, err |-> err, val |-> None]

Init ==
    /\ world \in InitWorlds
    /\ last = Called("World", None, OK)
    /\ steps = 0
    /\ run = NoRun

\* ---------------------------------------------------------------- inputs
\* Positions: every cell of the largest world and one step past its edges.
PosInputs == {Pos(a, s) : a \in 0..MaxAve, s \in 0..MaxStreet}

\* Sizes, a zero dimension included.
SizeInputs == {Pos(a, s) : a \in 0..MaxAve, s \in 0..MaxStreet}

\* An r x c grid that holds x in its first stored entry and y elsewhere.
Grid(r, c, x, y) ==
    [i \in 1..r |-> [j \in 1..c |-> IF i = 1 /\ j = 1 THEN x ELSE y]]

\* A grid whose rows differ in length.
Ragged(x) == <<<<x, x>>, <<x>>>>

BallCountInputs ==
    {None, Some(Ragged(0))}
    \cup {Some(Grid(r, c, x, 0)) : r \in 1..MaxStreet, c \in 0..MaxAve, x \in {-1, MaxBalls}}

HorizontalWallInputs ==
    {None, Some(<<>>), Some(Ragged(FALSE))}
    \cup {Some(Grid(r, c, TRUE, FALSE)) : r \in 1..(MaxStreet - 1), c \in 0..MaxAve}

VerticalWallInputs ==
    {None, Some(<<>>), Some(Ragged(FALSE))}
    \cup {Some(Grid(r, c, TRUE, FALSE)) : r \in 1..MaxStreet, c \in 0..(MaxAve - 1)}

ColorInputs ==
    {None, Some(Ragged(White))}
    \cup {Some(Grid(r, c, Str("red"), White)) : r \in 1..MaxStreet, c \in 0..MaxAve}

\* ---------------------------------------------------------------- actions
\* One call of a World operation that returns [w, err].
Step(op, arg, r) ==
    /\ steps < MaxSteps
    /\ run.status = "idle"
    /\ world' = r.w
    /\ last' = Called(op, arg, r.err)
    /\ steps' = steps + 1
    /\ UNCHANGED run

SetSize == \E new \in SizeInputs : Step("size", new, size_setter(world, new))

SetKarel ==
    \E p \in PosInputs :
        Step("karel", Karel(p, world.karel.direction),
             karel_setter(world, Karel(p, world.karel.direction)))

SetBallCounts ==
    \E new \in BallCountInputs : Step("ball_counts", new, ball_counts_setter(world, new))

SetHorizontalWalls ==
    \E new \in HorizontalWallInputs :
        Step("horizontal_walls", new, horizontal_walls_setter(world, new))

SetVerticalWalls ==
    \E new \in VerticalWallInputs :
        Step("vertical_walls", new, vertical_walls_setter(world, new))

SetColors == \E new \in ColorInputs : Step("colors", new, colors_setter(world, new))

SetBallCount ==
    \E new \in {-1, 0, MaxBalls} : Step("set_ball_count", new, set_ball_count(world, new, None))

PutBall == Step("put_ball", None, put_ball(world, None))

TakeBall == Step("take_ball", None, take_ball(world, None))

Paint == \E new \in {color("red"), Str("red")} : Step("paint", new, paint(world, new, None))

SetIsBlocked ==
    \E wall \in BOOLEAN : Step("set_is_blocked", wall, set_is_blocked(world, wall, None, None))

Move == Step("move", None, move(world))

TurnLeft == Step("turn_left", None, turn_left(world))

TurnRight == Step("turn_right", None, turn_right(world))

TurnAround == Step("turn_around", None, turn_around(world))

Next ==
    \/ SetSize
    \/ SetKarel
    \/ SetBallCounts
    \/ SetHorizontalWalls
    \/ SetVerticalWalls
    \/ SetColors
    \/ SetBallCount
    \/ PutBall
    \/ TakeBall
    \/ Paint
    \/ SetIsBlocked
    \/ Move
    \/ TurnLeft
    \/ TurnRight
    \/ TurnAround

Spec == Init /\ [][Next]_vars

\* ------------------------------------- calls with explicit cell arguments
\* Optional position and direction arguments.
OptionalPos == {None} \cup {Some(p) : p \in PosInputs}

OptionalDir == {None} \cup {Some(d) : d \in Direction}

\* One call that names its cell; the explored sequence of calls ends with it.
StepAt(op, arg, r) ==
    /\ steps < MaxSteps
    /\ run.status = "idle"
    /\ world' = r.w
    /\ last' = Called(op, arg, r.err)
    /\ steps' = MaxSteps
    /\ UNCHANGED run

\* Assigning None to one of the four grid attributes.
AssignNone ==
    \/ Step("ball_counts", None, ball_counts_setter(world, None))
    \/ Step("horizontal_walls", None, horizontal_walls_setter(world, None))
    \/ Step("vertical_walls", None, vertical_walls_setter(world, None))
    \/ Step("colors", None, colors_setter(world, None))

SetIsBlockedAt ==
    \E wall \in BOOLEAN, position \in OptionalPos, direction \in OptionalDir :
        StepAt("set_is_blocked",
               [wall |-> wall, position |-> position, direction |-> direction],
               set_is_blocked(world, wall, position, direction))

SetIsClearAt ==
    \E wall \in BOOLEAN, position \in OptionalPos, direction \in OptionalDir :
        StepAt("set_is_clear",
               [wall |-> wall, position |-> position, direction |-> direction],
               set_is_clear(world, wall, position, direction))

SetBallCountAt ==
    \E new \in {-1, MaxBalls}, position \in OptionalPos :
        StepAt("set_ball_count", [new |-> new, position |-> position],
               set_ball_count(world, new, position))

PutBallAt ==
    \E position \in OptionalPos :
        StepAt("put_ball", [position |-> position], put_ball(world, position))

TakeBallAt ==
    \E position \in OptionalPos :
        StepAt("take_ball", [position |-> position], take_ball(world, position))

\* w.copy(): the World itself is not touched, the call returns the new World.
Copy ==
    /\ steps < MaxSteps
    /\ run.status = "idle"
    /\ LET r == copy(world)
       IN  last' = [op |-> "copy", arg |-> None, err |-> r.err,
                    val |-> IF r.err = OK THEN Some(r.w) ELSE None]
    /\ steps' = steps + 1
    /\ UNCHANGED <<world, run>>

\* p.moved(d) for a position p and a direction d: a call on the value, the
\* World is not involved.
Moved ==
    /\ steps < MaxSteps
    /\ run.status = "idle"
    /\ \E p \in PosInputs, d \in Direction :
          LET r == moved(p, d)
          IN  last' = [op  |-> "moved",
                       arg |-> [position |-> p, direction |-> d],
                       err |-> r.err,
                       val |-> IF r.err = OK THEN Some(r.val) ELSE None]
    /\ steps' = MaxSteps
    /\ UNCHANGED <<world, run>>

PaintAt ==
    \E new \in {color("red"), Str("red")}, position \in OptionalPos :
        StepAt("paint", [new |-> new, position |-> position],
               paint(world, new, position))

NextCells ==
    \/ SetKarel
    \/ AssignNone
    \/ SetIsBlockedAt
    \/ SetIsClearAt
    \/ SetBallCountAt
    \/ PutBallAt
    \/ TakeBallAt
    \/ PaintAt
    \/ Copy
    \/ Moved

SpecCells == Init /\ [][NextCells]_vars

\* ------------------------------------------------------------ construction
\* No World object yet: the slots are unassigned.
Unbuilt == WorldOf(DefaultKarel, <<>>, <<>>, <<>>, <<>>)

\* The grids a caller may pass for an optional r x c grid: none, one of the
\* right shape, one with a row too many.
OptionalGridInputs(r, c, x) ==
    {None, Some(Repeat(Repeat(x, c), r)), Some(Repeat(Repeat(x, c), r + 1))}

\* Arguments of World(...): a rectangular ball-count grid (an empty and a
\* negative one included), the optional grids, a robot.
ConstructInputs ==
    UNION {
        {[karel            |-> Karel(p, "east"),
          ball_counts      |-> Grid(r, c, x, y),
          horizontal_walls |-> hw,
          vertical_walls   |-> vw,
          colors           |-> cs] :
            p  \in {Pos(0, 0), Pos(c, r)},
            x  \in -1..MaxBalls,
            y  \in 0..MaxBalls,
            hw \in OptionalGridInputs(r - 1, c, FALSE),
            vw \in OptionalGridInputs(r, c - 1, FALSE),
            cs \in OptionalGridInputs(r, c, Str("white"))} :
        r \in 1..MaxStreet, c \in 0..MaxAve}

InitConstruct ==
    /\ world = Unbuilt
    /\ \E args \in ConstructInputs : last = Called("arguments", args, OK)
    /\ steps = 0
    /\ run = NoRun

\* World(**args): the object exists only when __init__ returns.
Construct ==
    /\ last.op = "arguments"
    /\ LET a == last.arg
           r == __init__(a.karel, a.ball_counts, a.horizontal_walls,
                         a.vertical_walls, a.colors)
       IN  /\ world' = IF r.err = OK THEN r.w ELSE Unbuilt
           /\ last' = Called("World", a, r.err)
    /\ steps' = steps + 1
    /\ UNCHANGED run

NextConstruct == Construct

SpecConstruct == InitConstruct /\ [][NextConstruct]_vars

\* ------------------------------------------------ globals and exec_from
NormalNames ==
    {"move", "turn_left", "put_ball", "take_ball", "balls_present",
     "no_balls_present", "front_is_clear", "left_is_clear", "right_is_clear",
     "front_is_blocked", "left_is_blocked", "right_is_blocked",
     "facing_north", "facing_south", "facing_east", "facing_west",
     "not_facing_north", "not_facing_south", "not_facing_east",
     "not_facing_west"}

SuperNames == {"turn_right", "turn_around"}

UltraNames == {"color", "paint", "color_is"}

\* What a name of the table is bound to: the method of this World of that
\* name, or the color table of _color.py.
Bound(name) == IF name = "color" THEN "karel._color.color" ELSE "self." \o name

\* A table that hands turn_right and turn_around to every tier.
globals_no_tiers(mode) ==
    IF mode \notin {"normal", "super", "ultra"}
    THEN [val |-> <<>>, err |-> ErrInvalidMode]
    ELSE LET names == NormalNames \cup SuperNames
                      \cup (IF mode = "ultra" THEN UltraNames ELSE {})
         IN  [val |-> [n \in names |-> Bound(n)], err |-> OK]

\* World.globals: [val, err], val the dict as a function from its keys.
globals(mode) ==
    IF mode \notin {"normal", "super", "ultra"}
    THEN [val |-> <<>>, err |-> ErrInvalidMode]
    ELSE LET names == NormalNames
                      \cup (IF mode \in {"super", "ultra"} THEN SuperNames ELSE {})
                      \cup (IF mode = "ultra" THEN UltraNames ELSE {})
         IN  [val |-> [n \in names |-> Bound(n)], err |-> OK]

\* exec(code, globals): Python inserts its built-in namespace under the key
\* __builtins__ into a globals dict that has no such key.
ExecNamespace(g) ==
    IF "__builtins__" \in DOMAIN g THEN g
    ELSE [n \in DOMAIN g \cup {"__builtins__"} |->
             IF n \in DOMAIN g THEN g[n] ELSE "builtins"]

\* Built-in functions, found through __builtins__ when the namespace has it.
BuiltinNames == {"print", "range"}

\* Calling the method self.<name> with the arguments a program gives it:
\* [w, err, val], val None for a command.
Command(r) == [w |-> r.w, err |-> r.err, val |-> None]

Query(w, r) == [w |-> w, err |-> r.err, val |-> Some(r.val)]

Total(w, b) == [w |-> w, err |-> OK, val |-> Some(b)]

CallMethod(w, name, arg) ==
    CASE name = "move"             -> Command(move(w))
      [] name = "turn_left"        -> Command(turn_left(w))
      [] name = "turn_right"       -> Command(turn_right(w))
      [] name = "turn_around"      -> Command(turn_around(w))
      [] name = "put_ball"         -> Command(put_ball(w, None))
      [] name = "take_ball"        -> Command(take_ball(w, None))
      [] name = "paint"            -> Command(paint(w, arg, None))
      [] name = "balls_present"    -> Query(w, balls_present(w, None))
      [] name = "no_balls_present" -> Query(w, no_balls_present(w, None))
      [] name = "front_is_clear"   -> Query(w, front_is_clear(w))
      [] name = "left_is_clear"    -> Query(w, left_is_clear(w))
      [] name = "right_is_clear"   -> Query(w, right_is_clear(w))
      [] name = "front_is_blocked" -> Query(w, front_is_blocked(w))
      [] name = "left_is_blocked"  -> Query(w, left_is_blocked(w))
      [] name = "right_is_blocked" -> Query(w, right_is_blocked(w))
      [] name = "color_is"         -> Query(w, color_is(w, arg))
      [] name = "facing_north"     -> Total(w, facing_north(w))
      [] name = "facing_south"     -> Total(w, facing_south(w))
      [] name = "facing_east"      -> Total(w, facing_east(w))
      [] name = "facing_west"      -> Total(w, facing_west(w))
      [] name = "not_facing_north" -> Total(w, not_facing_north(w))
      [] name = "not_facing_south" -> Total(w, not_facing_south(w))
      [] name = "not_facing_east"  -> Total(w, not_facing_east(w))
      [] name = "not_facing_west"  -> Total(w, not_facing_west(w))

\* The names a program may call, and the argument it passes where one is
\* needed: color["red"] for paint, "red" for color_is.
ProgramNames == NormalNames \cup SuperNames \cup {"paint", "color_is"} \cup BuiltinNames

ArgOf(name) ==
    CASE name = "paint"    -> color("red")
      [] name = "color_is" -> Str("red")
      [] OTHER             -> None

ModeInputs == {"normal", "super", "ultra", "mega"}

CalledWith(op, arg, err, val) == [op |-> op, arg |-> arg, err |-> err, val |-> val]

\* exec_from(source, mode) up to the start of the program: globals(mode) may
\* raise, and then nothing runs.
ExecStart ==
    /\ run.status = "idle"
    /\ \E mode \in ModeInputs :
          LET g == globals(mode)
          IN  /\ last' = Called("exec_from", Str(mode), g.err)
              /\ run' = IF g.err # OK THEN [run EXCEPT !.status = "failed"]
                        ELSE [status    |-> "running",
                              mode      |-> mode,
                              namespace |-> ExecNamespace(g.val),
                              applied   |-> {},
                              caught    |-> FALSE]
    /\ UNCHANGED <<world, steps>>

\* The program calls a name that its namespace binds to a World method.  An
\* exception the call raises ends the run, unless the call stands in a try
\* statement of the program that handles it.
ExecCall ==
    /\ run.status = "running"
    /\ steps < MaxSteps
    /\ \E name \in ProgramNames \cap DOMAIN run.namespace, handled \in BOOLEAN :
          LET r == CallMethod(world, name, ArgOf(name))
          IN  /\ world' = r.w
              /\ last' = CalledWith(name, ArgOf(name), r.err, r.val)
              /\ run' = [run EXCEPT
                            !.applied = @ \cup {name},
                            !.caught  = r.err # OK /\ handled,
                            !.status  = IF r.err = OK \/ handled THEN @ ELSE "failed"]
    /\ steps' = steps + 1

\* The program calls a name its namespace lacks: Python looks it up in
\* __builtins__, and raises NameError when it is not there either.
ExecCallOther ==
    /\ run.status = "running"
    /\ steps < MaxSteps
    /\ \E name \in ProgramNames \ DOMAIN run.namespace, handled \in BOOLEAN :
          LET builtin == "__builtins__" \in DOMAIN run.namespace /\ name \in BuiltinNames
          IN  /\ last' = Called(name, None, IF builtin THEN OK ELSE ErrNameError)
              /\ run' = [run EXCEPT
                            !.caught = ~builtin /\ handled,
                            !.status = IF builtin \/ handled THEN @ ELSE "failed"]
    /\ steps' = steps + 1
    /\ UNCHANGED world

\* The program ends.
ExecFinish ==
    /\ run.status = "running"
    /\ run' = [run EXCEPT !.status = "done"]
    /\ last' = Called("exec_from", Str(run.mode), OK)
    /\ UNCHANGED <<world, steps>>

NextExec ==
    \/ ExecStart
    \/ ExecCall
    \/ ExecCallOther
    \/ ExecFinish

SpecExec == Init /\ [][NextExec]_vars

\* ================================================================ claims
\* Vocabulary of the claims, stated on the stored grids directly.

\* p lies within a size: 0 <= p.avenue < sz.avenue and 0 <= p.street < sz.street
InSize(sz, p) ==
    /\ 0 <= p.avenue /\ p.avenue < sz.avenue
    /\ 0 <= p.street /\ p.street < sz.street

\* p offset by one cell in direction d (a coordinate may leave the grid)
Offset(p, d) ==
    CASE d = "north" -> Pos(p.avenue, p.street + 1)
      [] d = "south" -> Pos(p.avenue, p.street - 1)
      [] d = "east"  -> Pos(p.avenue + 1, p.street)
      [] d = "west"  -> Pos(p.avenue - 1, p.street)

\* grid has r rows of c entries each
IsGrid(grid, r, c) == Len(grid) = r /\ \A i \in 1..Len(grid) : Len(grid[i]) = c

\* The four shape relations, rows and cols taken from the ball-count grid.
GridShape(w) ==
    LET rows == Len(w.ball_counts)
        cols == IF rows = 0 THEN 0 ELSE Len(w.ball_counts[1])
    IN  /\ IsGrid(w.ball_counts, rows, cols)
        /\ IsGrid(w.horizontal_walls, rows - 1, cols)
        /\ IsGrid(w.vertical_walls, rows, cols - 1)
        /\ IsGrid(w.colors, rows, cols)

WellFormed(w) ==
    /\ GridShape(w)
    /\ Len(w.ball_counts) >= 1 /\ Len(w.ball_counts[1]) >= 1
    /\ InSize(size(w), w.karel.position)

\* The edge of cell p in direction d is the boundary of the grid.
EdgeIsBoundary(w, p, d) == ~InSize(size(w), Offset(p, d))

\* The stored wall on the internal edge of cell p in direction d: the entry
\* exists and is TRUE.
EdgeHasWall(w, p, d) ==
    LET R == Len(w.ball_counts)
        g == IF d \in {"north", "south"} THEN w.horizontal_walls ELSE w.vertical_walls
        i == IF d = "north" THEN R - 2 - p.street ELSE R - 1 - p.street
        j == IF d = "west" THEN p.avenue - 1 ELSE p.avenue
    IN  /\ 1 <= i + 1 /\ i + 1 <= Len(g)
        /\ 1 <= j + 1 /\ j + 1 <= Len(g[i + 1])
        /\ g[i + 1][j + 1]

\* ------------------------------------------------------------------- C1
\* C1: constructing a World from a non-empty rectangular grid of non-negative
\* ball counts, with no wall grid, no color grid and no robot argument,
\* succeeds; the World has size (columns, rows), no internal wall, every cell
\* white, and the robot at (0,0) facing east.
C1_Case(a) ==
    /\ a.horizontal_walls.none /\ a.vertical_walls.none /\ a.colors.none
    /\ a.karel = DefaultKarel
    /\ Len(a.ball_counts) >= 1 /\ Len(a.ball_counts[1]) >= 1
    /\ \A i \in 1..Len(a.ball_counts) : \A j \in 1..Len(a.ball_counts[i]) :
           a.ball_counts[i][j] >= 0

C1_ConstructionSucceeds ==
    (last.op = "World" /\ C1_Case(last.arg)) =>
        /\ last.err = OK
        /\ size(world) = Pos(Len(last.arg.ball_counts[1]), Len(last.arg.ball_counts))
        /\ world.ball_counts = last.arg.ball_counts
        /\ GridShape(world)
        /\ \A i \in 1..Len(world.horizontal_walls) :
               \A j \in 1..Len(world.horizontal_walls[i]) : ~world.horizontal_walls[i][j]
        /\ \A i \in 1..Len(world.vertical_walls) :
               \A j \in 1..Len(world.vertical_walls[i]) : ~world.vertical_walls[i][j]
        /\ \A i \in 1..Len(world.colors) :
               \A j \in 1..Len(world.colors[i]) : world.colors[i][j] = White
        /\ world.karel = Karel(Pos(0, 0), "east")

\* ------------------------------------------------------------------- C2
\* C2: after any sequence of World operations, each succeeding or failing,
\* the robot's position is within the current size.
C2_RobotInBounds == InSize(size(world), world.karel.position)

\* ------------------------------------------------------------------- C3
\* C3: the ball-count grid is rows x cols, the horizontal-wall grid
\* (rows-1) x cols, the vertical-wall grid rows x (cols-1) and the color grid
\* rows x cols after every mutation.
C3_GridShape == GridShape(world)

\* ------------------------------------------------------------------- C4
\* C4: no cell ever holds a negative ball count, and an attempt to introduce
\* one (by set_ball_count or by assigning a ball-count grid) fails.
HasNegative(grid) ==
    \E i \in 1..Len(grid) : \E j \in 1..Len(grid[i]) : grid[i][j] < 0

C4_NonNegativeCounts ==
    /\ ~HasNegative(world.ball_counts)
    /\ (last.op = "set_ball_count" /\ last.arg < 0) => last.err # OK
    /\ (last.op = "ball_counts" /\ ~last.arg.none /\ HasNegative(last.arg.val))
           => last.err # OK

\* ------------------------------------------------------------------- C5
\* C5: after any sequence of size and grid-attribute assignments, accepted or
\* rejected, the World's size has avenue >= 1 and street >= 1.
C5_MinimumSize ==
    /\ Len(world.ball_counts) >= 1
    /\ Len(world.ball_counts[1]) >= 1
    /\ size(world).avenue >= 1 /\ size(world).street >= 1

\* A size with a zero dimension was assigned, and one was derived from an
\* assigned wall grid with empty rows; both were rejected.
C5_Witness ==
    /\ last.op \in {"size", "horizontal_walls"}
    /\ last.err = ErrZeroSize
    /\ steps = MaxSteps

\* ------------------------------------------------------------------- C6
\* C6: for an in-bounds robot, move either fails with the blocked-move error
\* and leaves the World unchanged, exactly when the edge in front is the grid
\* boundary or a stored wall, or succeeds with the robot one cell further in
\* its direction, the direction and everything else unchanged.
C6_MoveOrBlocked ==
    [][(last'.op = "move" /\ InSize(size(world), world.karel.position)) =>
          LET p == world.karel.position
              d == world.karel.direction
              obstructed == EdgeIsBoundary(world, p, d) \/ EdgeHasWall(world, p, d)
          IN  \/ /\ obstructed
                 /\ last'.err = ErrBlockedMove
                 /\ world' = world
              \/ /\ ~obstructed
                 /\ last'.err = OK
                 /\ world' = [world EXCEPT !.karel = Karel(Offset(p, d), d)]]_vars

\* ------------------------------------------------------------------- C7
\* C7: an accepted size assignment on a well-formed World keeps, at every
\* position valid in both sizes, the ball count, the color and the
\* blocked/clear answer on every edge between two such cells; every new cell
\* has 0 balls, is white and has no wall on any of its internal edges.
SameCell(w, v, p) ==
    /\ ball_count(v, Some(p)) = ball_count(w, Some(p))
    /\ color_at(v, Some(p)) = color_at(w, Some(p))
    /\ \A d \in Direction :
           (InSize(size(w), Offset(p, d)) /\ InSize(size(v), Offset(p, d))) =>
               is_blocked(v, Some(p), Some(d)) = is_blocked(w, Some(p), Some(d))

EmptyCell(v, p) ==
    /\ ball_count(v, Some(p)) = [val |-> 0, err |-> OK]
    /\ color_at(v, Some(p)) = [val |-> RGB(255, 255, 255), err |-> OK]
    /\ \A d \in Direction :
           InSize(size(v), Offset(p, d)) =>
               is_blocked(v, Some(p), Some(d)) = [val |-> FALSE, err |-> OK]

C7_ResizePreserves ==
    [][(last'.op = "size" /\ last'.err = OK /\ WellFormed(world)) =>
          /\ size(world') = last'.arg
          /\ world'.karel = world.karel
          /\ \A p \in PosInputs :
                /\ (InSize(size(world), p) /\ InSize(size(world'), p))
                       => SameCell(world, world', p)
                /\ (~InSize(size(world), p) /\ InSize(size(world'), p))
                       => EmptyCell(world', p)]_vars

\* A patterned world has grown to the largest size: it kept a ball and a wall
\* and is not one of the initial worlds.
C7_Witness ==
    /\ steps = 1 /\ last.op = "size" /\ last.err = OK
    /\ size(world) = Pos(MaxAve, MaxStreet)
    /\ world \notin InitWorlds
    /\ \E p \in PosInputs : InSize(size(world), p) /\ ball_count(world, Some(p)).val > 0
    /\ \E p \in PosInputs : \E d \in Direction :
           /\ InSize(size(world), p) /\ InSize(size(world), Offset(p, d))
           /\ is_blocked(world, Some(p), Some(d)).val

\* ------------------------------------------------------------------- C8
\* C8: assigning a size with avenue 0 or street 0, or one for which the robot
\* is out of bounds, fails and leaves size, robot and all four grids as they
\* were.
C8_RejectedResize ==
    [][last'.op = "size" =>
          /\ (\/ last'.arg.avenue = 0 \/ last'.arg.street = 0
              \/ ~InSize(last'.arg, world.karel.position))
                 => last'.err # OK
          /\ last'.err # OK => world' = world]_vars

\* A size too small for the robot was assigned to a world with a ball, a
\* wall and more than one street.
C8_Witness ==
    /\ last.op = "size" /\ last.err = ErrKarelOutOfBounds
    /\ last.arg.avenue >= 1 /\ last.arg.street >= 1
    /\ size(world).street > last.arg.street
    /\ \E i \in 1..Len(world.ball_counts) : \E j \in 1..Len(world.ball_counts[i]) :
           world.ball_counts[i][j] > 0

\* ------------------------------------------------------------------- C9
\* C9: assigning a non-empty rectangular grid to ball_counts,
\* horizontal_walls, vertical_walls or colors is rejected, leaving the World
\* unchanged, when the size derived from the grid's shape has a zero dimension
\* or puts the robot out of bounds; otherwise it succeeds, the World's size is
\* the derived size, the grid is stored as given and the other three grids are
\* resized as a size assignment resizes them.
GridOps == {"ball_counts", "horizontal_walls", "vertical_walls", "colors"}

DerivedSize(op, grid) ==
    LET r == Len(grid)
        c == Len(grid[1])
    IN  CASE op = "ball_counts"      -> Pos(c, r)
          [] op = "colors"           -> Pos(c, r)
          [] op = "horizontal_walls" -> Pos(c, r + 1)
          [] op = "vertical_walls"   -> Pos(c + 1, r)

\* The grid as the attribute stores it: color names as the colors they denote.
Stored(op, grid) ==
    IF op = "colors"
    THEN [i \in 1..Len(grid) |-> [j \in 1..Len(grid[i]) |->
             IF "str" \in DOMAIN grid[i][j] THEN color(grid[i][j].str) ELSE grid[i][j]]]
    ELSE grid

Attribute(w, op) ==
    CASE op = "ball_counts"      -> w.ball_counts
      [] op = "colors"           -> w.colors
      [] op = "horizontal_walls" -> w.horizontal_walls
      [] op = "vertical_walls"   -> w.vertical_walls

C9_GridAssignment ==
    [][(/\ last'.op \in GridOps
        /\ ~last'.arg.none
        /\ Len(last'.arg.val) >= 1
        /\ IsGrid(last'.arg.val, Len(last'.arg.val), Len(last'.arg.val[1]))) =>
          LET op      == last'.op
              grid    == last'.arg.val
              derived == DerivedSize(op, grid)
              resized == size_setter(world, derived).w
          IN  IF \/ derived.avenue = 0 \/ derived.street = 0
                 \/ ~InSize(derived, world.karel.position)
              THEN last'.err # OK /\ world' = world
              ELSE /\ last'.err = OK
                   /\ size(world') = derived
                   /\ Attribute(world', op) = Stored(op, grid)
                   /\ world'.karel = world.karel
                   /\ \A other \in GridOps \ {op} :
                          Attribute(world', other) = Attribute(resized, other)]_vars

\* A wall grid was assigned to a world of another size, which took the derived
\* size and kept a ball.
C9_Witness ==
    /\ steps = 1 /\ last.op = "horizontal_walls" /\ last.err = OK
    /\ ~last.arg.none
    /\ world.horizontal_walls = last.arg.val
    /\ Len(last.arg.val) = MaxStreet - 1
    /\ size(world) = Pos(MaxAve, MaxStreet)
    /\ world \notin InitWorlds
    /\ \E i \in 1..Len(world.ball_counts) : \E j \in 1..Len(world.ball_counts[i]) :
           world.ball_counts[i][j] > 0

\* ------------------------------------------------------------------ C10
\* The names of each tier's table, as the specification lists them.
TierNames(mode) ==
    CASE mode = "normal" -> NormalNames
      [] mode = "super"  -> NormalNames \cup {"turn_right", "turn_around"}
      [] mode = "ultra"  -> NormalNames \cup {"turn_right", "turn_around"}
                                        \cup {"color", "paint", "color_is"}

InRun == run.status \in {"running", "done", "failed"} /\ run.mode # ""

\* C10: a program run under tier T can invoke exactly the names of
\* T's table and nothing else is available in its namespace; under "normal" it
\* never invokes turn_right, turn_around, paint or color_is, under "super"
\* never paint or color_is.
C10_ExactlyTheTable ==
    InRun =>
        /\ DOMAIN run.namespace = TierNames(run.mode)
        /\ run.applied \subseteq TierNames(run.mode)
        /\ (last.op \in ProgramNames \ TierNames(run.mode)) => last.err = ErrNameError
        /\ run.mode = "normal" =>
               run.applied \cap {"turn_right", "turn_around", "paint", "color_is"} = {}
        /\ run.mode = "super" => run.applied \cap {"paint", "color_is"} = {}

\* ------------------------------------------------------------------ C11
\* The 20 operations the specification lists for the "normal" tier.
ListedNormal ==
    {"move", "turn_left", "put_ball", "take_ball",
     "balls_present", "no_balls_present"}
    \cup {side \o "_is_" \o state :
            side \in {"front", "left", "right"}, state \in {"clear", "blocked"}}
    \cup {prefix \o d : prefix \in {"facing_", "not_facing_"}, d \in Direction}

Tiers == {"normal", "super", "ultra"}

\* name is bound to the operation of that name of this World, "color" to the
\* color table.
SameNamed(table, name) ==
    table[name] = IF name = "color" THEN "karel._color.color" ELSE "self." \o name

\* C11: the "normal" table has exactly the 20 listed names, "super" adds
\* exactly turn_right and turn_around, "ultra" adds exactly color, paint and
\* color_is, so normal < super < ultra strictly; every name is bound to the
\* same-named operation of this World (color to the color table); and the
\* table a run was started with is the table of its tier.
C11_TierContainment ==
    LET normal == globals("normal")
        super  == globals("super")
        ultra  == globals("ultra")
        N == DOMAIN normal.val
        S == DOMAIN super.val
        U == DOMAIN ultra.val
    IN  /\ normal.err = OK /\ super.err = OK /\ ultra.err = OK
        /\ N = ListedNormal
        /\ Cardinality(N) = 20
        /\ S \ N = {"turn_right", "turn_around"}
        /\ U \ S = {"color", "paint", "color_is"}
        /\ N \subseteq S /\ N # S
        /\ S \subseteq U /\ S # U
        /\ \A n \in N : SameNamed(normal.val, n)
        /\ \A n \in S : SameNamed(super.val, n)
        /\ \A n \in U : SameNamed(ultra.val, n)
        /\ InRun =>
               /\ run.mode \in Tiers
               /\ DOMAIN run.namespace \ {"__builtins__"} =
                      CASE run.mode = "normal" -> N
                        [] run.mode = "super"  -> N \cup {"turn_right", "turn_around"}
                        [] run.mode = "ultra"  -> N \cup {"turn_right", "turn_around",
                                                          "color", "paint", "color_is"}
               /\ \A n \in DOMAIN run.namespace \ {"__builtins__"} :
                      SameNamed(run.namespace, n)

\* A run under "ultra" has called paint through its table, and the robot's
\* cell took the color.
C11_Witness ==
    /\ run.status = "running" /\ run.mode = "ultra"
    /\ last.op = "paint" /\ last.err = OK
    /\ color_at(world, None).val = color("red")

\* ------------------------------------------------------------------ C12
\* A step of the run in which the program calls a name.
CallStep == run.status = "running" /\ steps' = steps + 1

\* C12: when an operation invoked by the program fails, the run halts at that
\* invocation with the failure, the World is as the invocations before it
\* left it, and nothing is applied afterwards.
C12_HaltsAtFailure ==
    [][/\ (CallStep /\ last'.err # OK) =>
              (run'.status = "failed" /\ world' = world)
       /\ run.status = "failed" => (world' = world /\ run' = run)]_vars

\* C12 as amended: a failure the program does not handle halts the run at
\* that invocation, with the World as the invocations before it left it, and
\* nothing is applied afterwards; a failure the program handles leaves the
\* World as it was as well, and the run goes on; a successful invocation
\* never halts the run.
C12_HaltsAtUnhandledFailure ==
    [][/\ (CallStep /\ last'.err # OK /\ ~run'.caught) =>
              (run'.status = "failed" /\ world' = world)
       /\ (CallStep /\ last'.err # OK /\ run'.caught) =>
              (run'.status = "running" /\ world' = world)
       /\ (CallStep /\ last'.err = OK) => run'.status = "running"
       /\ run.status = "failed" => (world' = world /\ run' = run)]_vars

\* A run turned the robot, then failed moving into the boundary: the turn stays.
C12_Witness ==
    /\ run.status = "failed" /\ ~run.caught
    /\ last.op = "move" /\ last.err = ErrBlockedMove
    /\ "turn_left" \in run.applied
    /\ world.karel.direction = "north"
    /\ steps = MaxSteps

\* ------------------------------------------------------------------ C13
\* The direction opposite to d.
Opposite(d) ==
    CASE d = "north" -> "south"
      [] d = "south" -> "north"
      [] d = "east"  -> "west"
      [] d = "west"  -> "east"

\* The call just made named both its position and its direction.
ExplicitEdge(call) ==
    /\ "position" \in DOMAIN call.arg /\ "direction" \in DOMAIN call.arg
    /\ ~call.arg.position.none /\ ~call.arg.direction.none

Answer(b) == [val |-> b, err |-> OK]

\* C13: for adjacent in-bounds cells p and q = p offset by one in direction d,
\* set_is_blocked(w, position=p, direction=d) succeeds, and afterwards
\* is_blocked(position=p, direction=d) and is_blocked(position=q,
\* direction=opposite of d) both return w.
C13_WallSymmetry ==
    [][(last'.op = "set_is_blocked" /\ ExplicitEdge(last')) =>
          LET p == last'.arg.position.val
              d == last'.arg.direction.val
              q == Offset(p, d)
          IN  (InSize(size(world), p) /\ InSize(size(world), q)) =>
                  /\ last'.err = OK
                  /\ is_blocked(world', Some(p), Some(d)) = Answer(last'.arg.wall)
                  /\ is_blocked(world', Some(q), Some(Opposite(d))) = Answer(last'.arg.wall)]_vars

\* ------------------------------------------------------------------ C14
\* p is in bounds and the cell in direction d of it is outside the grid.
OutwardEdge(w, p, d) == InSize(size(w), p) /\ ~InSize(size(w), Offset(p, d))

BorderAnswersBlocked(w, p) ==
    \A d \in Direction :
        OutwardEdge(w, p, d) => is_blocked(w, Some(p), Some(d)) = Answer(TRUE)

\* C14: on an edge between an in-bounds cell and the outside of the grid,
\* is_blocked returns True without raising whatever the stored walls are,
\* while set_is_blocked and set_is_clear fail with the out-of-range error and
\* leave the whole World unchanged.  The queries are made at the position of
\* each call, before and after it.
C14_BoundaryEdges ==
    [][(last'.op \in {"set_is_blocked", "set_is_clear"} /\ ExplicitEdge(last')) =>
          LET p == last'.arg.position.val
              d == last'.arg.direction.val
          IN  /\ BorderAnswersBlocked(world, p)
              /\ BorderAnswersBlocked(world', p)
              /\ OutwardEdge(world, p, d) =>
                     (last'.err = ErrPositionOutOfRange /\ world' = world)]_vars

\* set_is_clear was refused on the north edge of a cell of the top street, in
\* a world that stores walls.
C14_Witness ==
    /\ last.op = "set_is_clear" /\ ExplicitEdge(last)
    /\ last.err = ErrPositionOutOfRange
    /\ last.arg.direction.val = "north"
    /\ OutwardEdge(world, last.arg.position.val, "north")
    /\ \E i \in 1..Len(world.vertical_walls) : \E j \in 1..Len(world.vertical_walls[i]) :
           world.vertical_walls[i][j]

\* ------------------------------------------------------------------ C15
\* The call just made named a position outside the current size.
OutsidePosition(w, call) ==
    /\ "position" \in DOMAIN call.arg
    /\ ~call.arg.position.none
    /\ ~InSize(size(w), call.arg.position.val)

\* The call just made named no position.
NoPosition(call) == "position" \in DOMAIN call.arg /\ call.arg.position.none

CellOps == {"set_ball_count", "put_ball", "take_ball", "paint", "set_is_blocked"}

\* The call of a cell operation with the position replaced by at.
CellCall(w, call, at) ==
    CASE call.op = "set_ball_count" -> set_ball_count(w, call.arg.new, at)
      [] call.op = "put_ball"       -> put_ball(w, at)
      [] call.op = "take_ball"      -> take_ball(w, at)
      [] call.op = "paint"          -> paint(w, call.arg.new, at)
      [] call.op = "set_is_blocked" ->
             set_is_blocked(w, call.arg.wall, at, call.arg.direction)

QueriesOutOfRange(w, p) ==
    ~InSize(size(w), p) =>
        /\ ball_count(w, Some(p)).err = ErrPositionOutOfRange
        /\ color_at(w, Some(p)).err = ErrPositionOutOfRange
        /\ \A d \in OptionalDir : is_blocked(w, Some(p), d).err = ErrPositionOutOfRange

QueriesAtRobot(w) ==
    /\ ball_count(w, None) = ball_count(w, Some(w.karel.position))
    /\ color_at(w, None) = color_at(w, Some(w.karel.position))
    /\ \A d \in OptionalDir : is_blocked(w, None, d) = is_blocked(w, Some(w.karel.position), d)

\* C15: ball_count, set_ball_count, put_ball, take_ball, color_at, paint,
\* is_blocked and set_is_blocked, called with a position outside the current
\* size, fail with the position-out-of-range error, whatever the other
\* arguments, and leave the World unchanged; called with no position they do
\* what they do for the robot's position.  The queries are made with the
\* position of each call, before and after it.
C15_OutOfRangePositions ==
    [][last'.op \in CellOps =>
          /\ NoPosition(last') =>
                 LET r == CellCall(world, last', Some(world.karel.position))
                 IN  /\ last'.err = r.err /\ world' = r.w
                     /\ QueriesAtRobot(world) /\ QueriesAtRobot(world')
          /\ ~NoPosition(last') =>
                 /\ QueriesOutOfRange(world, last'.arg.position.val)
                 /\ QueriesOutOfRange(world', last'.arg.position.val)
          /\ OutsidePosition(world, last') =>
                 (last'.err = ErrPositionOutOfRange /\ world' = world)]_vars

\* set_ball_count with a negative count and a position outside the World
\* failed with the out-of-range error, in a World that holds balls.
C15_Witness ==
    /\ last.op = "set_ball_count" /\ last.arg.new < 0
    /\ OutsidePosition(world, last)
    /\ last.err = ErrPositionOutOfRange
    /\ \E i \in 1..Len(world.ball_counts) : \E j \in 1..Len(world.ball_counts[i]) :
           world.ball_counts[i][j] > 0

\* ------------------------------------------------------------------ C16
\* The World w with the ball count of the in-bounds cell p replaced by n.
WithCount(w, p, n) ==
    [w EXCEPT !.ball_counts[size(w).street - p.street][p.avenue + 1] = n]

\* C16: with the robot on a cell of the grid holding n balls, put_ball
\* succeeds and makes the count n + 1, take_ball with n > 0 succeeds and makes
\* it n - 1, each changing nothing else; take_ball with n = 0 fails with the
\* validation error and changes nothing; balls_present answers n # 0 and
\* no_balls_present the negation.
C16_BallOperations ==
    [][InSize(size(world), world.karel.position) =>
          LET p == world.karel.position
              n == ball_count(world, Some(p)).val
          IN  /\ balls_present(world, None) = Answer(n # 0)
              /\ no_balls_present(world, None) = Answer(n = 0)
              /\ last'.op = "put_ball" =>
                     /\ last'.err = OK
                     /\ ball_count(world', Some(p)) = [val |-> n + 1, err |-> OK]
                     /\ world' = WithCount(world, p, n + 1)
              /\ (last'.op = "take_ball" /\ n > 0) =>
                     /\ last'.err = OK
                     /\ ball_count(world', Some(p)) = [val |-> n - 1, err |-> OK]
                     /\ world' = WithCount(world, p, n - 1)
              /\ (last'.op = "take_ball" /\ n = 0) =>
                     /\ last'.err = ErrNegativeBalls
                     /\ world' = world]_vars

\* On a 1x1 world a ball was put and taken again: the cell is empty, and
\* no_balls_present holds.
C16_Witness ==
    /\ size(world) = Pos(1, 1)
    /\ steps = 2 /\ last.op = "take_ball" /\ last.err = OK
    /\ no_balls_present(world, None) = Answer(TRUE)

\* ------------------------------------------------------------------ C17
\* C17: with the robot on a cell of the grid, paint(c) with no position, c a
\* color name or a color value, succeeds; color_at() then returns the color
\* c denotes, and no other cell's color and nothing else changes.
C17_PaintThenColorAt ==
    [][(last'.op = "paint" /\ InSize(size(world), world.karel.position)) =>
          LET p == world.karel.position
          IN  /\ last'.err = OK
              /\ color_at(world', None) = [val |-> from_str(last'.arg), err |-> OK]
              /\ world' = [world EXCEPT
                              !.colors[size(world).street - p.street][p.avenue + 1] =
                                  from_str(last'.arg)]]_vars

\* ------------------------------------------------------------------ C18
\* C18: copy of a well-formed World succeeds, returns a World equal to it in
\* robot state and all four grids, and leaves the World itself unchanged.
C18_CopyEqual ==
    [][(last'.op = "copy" /\ WellFormed(world)) =>
          /\ last'.err = OK
          /\ last'.val = Some(world)
          /\ world' = world]_vars

\* ------------------------------------------------------------------ C19
\* C19: assigning a well-formed World's current size to its size succeeds and
\* leaves robot, ball counts, both wall grids and colors unchanged.
C19_ResizeIdempotent ==
    [][(last'.op = "size" /\ WellFormed(world) /\ last'.arg = size(world)) =>
          (last'.err = OK /\ world' = world)]_vars

\* The largest world, holding balls, walls and colors, was assigned its own size.
C19_Witness ==
    /\ last.op = "size" /\ last.err = OK
    /\ last.arg = size(world) /\ size(world) = Pos(MaxAve, MaxStreet)
    /\ \E i \in 1..Len(world.ball_counts) : \E j \in 1..Len(world.ball_counts[i]) :
           world.ball_counts[i][j] > 0 /\ world.colors[i][j] # White
    /\ \E i \in 1..Len(world.vertical_walls) : \E j \in 1..Len(world.vertical_walls[i]) :
           world.vertical_walls[i][j]

\* ------------------------------------------------------------------ C20
Twice(f(_), d) == f(f(d))

IsBijection(f(_)) ==
    /\ \A d \in Direction : f(d) \in Direction
    /\ {f(d) : d \in Direction} = Direction
    /\ \A d, e \in Direction : f(d) = f(e) => d = e

\* C20: for each direction d, turned_left then turned_right gives d, as does
\* turned_right then turned_left; turned_around twice gives d; turned_left
\* twice and turned_right twice equal turned_around; four left turns give d;
\* each turn function is total and a bijection on the four directions; and
\* the robot always faces one of the four.
C20_DirectionAlgebra ==
    /\ world.karel.direction \in Direction
    /\ \A d \in Direction :
           /\ turned_right(turned_left(d)) = d
           /\ turned_left(turned_right(d)) = d
           /\ Twice(turned_around, d) = d
           /\ Twice(turned_left, d) = turned_around(d)
           /\ Twice(turned_right, d) = turned_around(d)
           /\ Twice(turned_left, Twice(turned_left, d)) = d
    /\ IsBijection(turned_left)
    /\ IsBijection(turned_right)
    /\ IsBijection(turned_around)

\* The robot, facing east at first, turned left twice and faces west.
C20_Witness ==
    /\ steps = 2 /\ last.op = "turn_left" /\ last.err = OK
    /\ world.karel.direction = "west"

\* ------------------------------------------------------------------ C21
BooleanQueries ==
    {"front_is_clear", "left_is_clear", "right_is_clear",
     "front_is_blocked", "left_is_blocked", "right_is_blocked",
     "facing_north", "facing_south", "facing_east", "facing_west",
     "not_facing_north", "not_facing_south", "not_facing_east", "not_facing_west",
     "balls_present", "no_balls_present"}

\* What the query of that name returns on w: [w, err, val].
Asked(w, name) == CallMethod(w, name, None)

\* C21: with the robot in bounds, each of the sixteen queries returns a
\* boolean without failing and leaves the World unchanged; each *_is_clear is
\* the negation of the matching *_is_blocked, each not_facing_<dir> the
\* negation of facing_<dir>, no_balls_present the negation of balls_present,
\* and exactly one facing_<dir> is true.
C21_QueriesTotal ==
    InSize(size(world), world.karel.position) =>
        /\ \A q \in BooleanQueries :
               /\ Asked(world, q).err = OK
               /\ Asked(world, q).val \in {Some(TRUE), Some(FALSE)}
               /\ Asked(world, q).w = world
        /\ \A side \in {"front", "left", "right"} :
               Asked(world, side \o "_is_clear").val.val =
                   ~Asked(world, side \o "_is_blocked").val.val
        /\ \A d \in Direction :
               Asked(world, "not_facing_" \o d).val.val =
                   ~Asked(world, "facing_" \o d).val.val
        /\ Asked(world, "no_balls_present").val.val = ~Asked(world, "balls_present").val.val
        /\ Cardinality({d \in Direction : Asked(world, "facing_" \o d).val.val}) = 1

\* ------------------------------------------------------------------ C22
\* The direction a quarter turn counterclockwise from d.
LeftOf(d) ==
    CASE d = "north" -> "west"
      [] d = "west"  -> "south"
      [] d = "south" -> "east"
      [] d = "east"  -> "north"

\* The direction a quarter turn clockwise from d.
RightOf(d) ==
    CASE d = "north" -> "east"
      [] d = "east"  -> "south"
      [] d = "south" -> "west"
      [] d = "west"  -> "north"

Facing(w, d) == [w EXCEPT !.karel = Karel(w.karel.position, d)]

\* C22: on a well-formed World turn_left, turn_right and turn_around do not
\* fail, replace the robot's direction by the left, right resp. opposite
\* direction, and leave the position, the size and all four grids unchanged.
C22_Turns ==
    [][(WellFormed(world) /\ last'.op \in {"turn_left", "turn_right", "turn_around"}) =>
          LET d == world.karel.direction
          IN  /\ last'.err = OK
              /\ last'.op = "turn_left"   => world' = Facing(world, LeftOf(d))
              /\ last'.op = "turn_right"  => world' = Facing(world, RightOf(d))
              /\ last'.op = "turn_around" => world' = Facing(world, Opposite(d))]_vars

\* The robot, two cells from the origin in a world with balls and walls,
\* turned right and faces south.
C22_Witness ==
    /\ last.op = "turn_right" /\ last.err = OK /\ steps = 2
    /\ world.karel = Karel(Pos(1, 1), "south")
    /\ WellFormed(world)
    /\ \E i \in 1..Len(world.vertical_walls) : \E j \in 1..Len(world.vertical_walls[i]) :
           world.vertical_walls[i][j]

\* ------------------------------------------------------------------ C23
\* The operations of a cell, with the two wall writes.
StorageOps == CellOps \cup {"set_is_clear"}

\* Storage entry [i][j] of a grid, rows and columns counted from 0.
Entry(grid, i, j) == grid[i + 1][j + 1]

\* The grid with storage entry [i][j] replaced by v.
WithEntry(grid, i, j, v) == [grid EXCEPT ![i + 1][j + 1] = v]

\* The storage row and column of the wall of cell p in direction d, in a
\* World with R rows.
WallRow(R, p, d) == IF d = "north" THEN R - 2 - p.street ELSE R - 1 - p.street

WallColumn(p, d) == IF d = "west" THEN p.avenue - 1 ELSE p.avenue

\* The World a successful cell operation at p (direction d for a wall) leaves:
\* w with the one storage entry of the claim replaced.
Written(w, call, p, d) ==
    LET R == Len(w.ball_counts)
        i == R - 1 - p.street
        j == p.avenue
    IN  CASE call.op = "set_ball_count" ->
                 [w EXCEPT !.ball_counts = WithEntry(@, i, j, call.arg.new)]
          [] call.op = "put_ball" ->
                 [w EXCEPT !.ball_counts = WithEntry(@, i, j, Entry(@, i, j) + 1)]
          [] call.op = "take_ball" ->
                 [w EXCEPT !.ball_counts = WithEntry(@, i, j, Entry(@, i, j) - 1)]
          [] call.op = "paint" ->
                 [w EXCEPT !.colors = WithEntry(@, i, j, call.arg.new)]
          [] call.op \in {"set_is_blocked", "set_is_clear"} ->
                 LET v == IF call.op = "set_is_blocked" THEN call.arg.wall
                                                          ELSE ~call.arg.wall
                 IN  IF d \in {"north", "south"}
                     THEN [w EXCEPT !.horizontal_walls =
                               WithEntry(@, WallRow(R, p, d), WallColumn(p, d), v)]
                     ELSE [w EXCEPT !.vertical_walls =
                               WithEntry(@, WallRow(R, p, d), WallColumn(p, d), v)]

\* What the queries at p return without failing is the storage entry of the
\* claim.
ReadsEntry(w, p) ==
    LET R == Len(w.ball_counts)
        i == R - 1 - p.street
        j == p.avenue
    IN  /\ ball_count(w, Some(p)).err = OK =>
               ball_count(w, Some(p)).val = Entry(w.ball_counts, i, j)
        /\ color_at(w, Some(p)).err = OK =>
               color_at(w, Some(p)).val = Entry(w.colors, i, j)
        /\ \A d \in Direction :
               (InSize(size(w), Offset(p, d)) /\ is_blocked(w, Some(p), Some(d)).err = OK) =>
                   is_blocked(w, Some(p), Some(d)).val =
                       Entry(IF d \in {"north", "south"} THEN w.horizontal_walls
                                                         ELSE w.vertical_walls,
                             WallRow(R, p, d), WallColumn(p, d))

\* C23: in a World with R rows, a cell operation at (avenue a, street s) that
\* succeeds writes storage entry [R-1-s][a] of its grid, and ball_count and
\* color_at read that entry; the wall north of the cell is
\* horizontal_walls[R-2-s][a], south horizontal_walls[R-1-s][a], east
\* vertical_walls[R-1-s][a], west vertical_walls[R-1-s][a-1], for is_blocked
\* as for set_is_blocked and set_is_clear.  The queries are made at the cell
\* of each call, before and after it.
C23_StorageMapping ==
    [][(last'.op \in StorageOps /\ last'.err = OK) =>
          LET p == IF last'.arg.position.none THEN world.karel.position
                                              ELSE last'.arg.position.val
              d == IF "direction" \notin DOMAIN last'.arg THEN "north"
                   ELSE IF last'.arg.direction.none THEN world.karel.direction
                   ELSE last'.arg.direction.val
          IN  /\ world' = Written(world, last', p, d)
              /\ ReadsEntry(world, p)
              /\ ReadsEntry(world', p)]_vars

\* set_ball_count on the cell of street 1 of a one-avenue, two-street world
\* succeeded: the count is in storage row 0, and row 1 (street 0) is empty.
C23_Witness ==
    /\ last.op = "set_ball_count" /\ last.err = OK
    /\ last.arg.position = Some(Pos(0, 1))
    /\ size(world) = Pos(1, 2)
    /\ Entry(world.ball_counts, 0, 0) = MaxBalls
    /\ Entry(world.ball_counts, 1, 0) = 0

\* set_is_blocked(True) on the west edge of cell (1, 1) of a 2 x 2 world
\* succeeded: the wall is vertical_walls[0][0].
C23_WallWitness ==
    /\ last.op = "set_is_blocked" /\ last.err = OK /\ last.arg.wall
    /\ last.arg.position = Some(Pos(1, 1)) /\ last.arg.direction = Some("west")
    /\ WellFormed(world) /\ size(world) = Pos(2, 2)
    /\ Entry(world.vertical_walls, 0, 0)

\* ------------------------------------------------------------------ C24
\* C24: p.moved(d) returns p with street + 1 (north), street - 1 (south),
\* avenue + 1 (east) or avenue - 1 (west), the other coordinate unchanged,
\* also when the step leads to a negative coordinate.
C24_MovedNeverRejects ==
    last.op = "moved" =>
        /\ last.err = OK
        /\ last.val = Some(Offset(last.arg.position, last.arg.direction))

\* C24 as amended: p.moved(d) returns p offset by one in direction d when
\* both coordinates of the result are non-negative, and fails with the
\* ValueError of the position constructor when the step leads to a negative
\* coordinate.
C24_MovedOrNegative ==
    last.op = "moved" =>
        LET q == Offset(last.arg.position, last.arg.direction)
        IN  IF q.avenue < 0 \/ q.street < 0
            THEN last.err = ErrNegativeCoordinate /\ last.val = None
            ELSE last.err = OK /\ last.val = Some(q)

\* moved(west) on a position of avenue 0 and a street above 0 was rejected.
C24_Witness ==
    /\ last.op = "moved" /\ last.arg.direction = "west"
    /\ last.arg.position.avenue = 0 /\ last.arg.position.street > 0
    /\ last.err = ErrNegativeCoordinate

\* ------------------------------------------------------------------ C25
\* The default grid of that attribute for a world of size (A, S).
DefaultGrid(op, A, S) ==
    CASE op = "ball_counts"      -> Repeat(Repeat(0, A), S)
      [] op = "horizontal_walls" -> Repeat(Repeat(FALSE, A), S - 1)
      [] op = "vertical_walls"   -> Repeat(Repeat(FALSE, A - 1), S)
      [] op = "colors"           -> Repeat(Repeat(RGB(255, 255, 255), A), S)

\* C25: assigning None to ball_counts, horizontal_walls, vertical_walls or
\* colors of a well-formed World of size (A, S) succeeds, leaves the size
\* (A, S) and replaces that grid by its default of the right shape, the other
\* grids and the robot unchanged.
C25_ResetToDefault ==
    [][(WellFormed(world) /\ last'.op \in GridOps /\ last'.arg = None) =>
          LET A == size(world).avenue
              S == size(world).street
          IN  /\ last'.err = OK
              /\ size(world') = Pos(A, S)
              /\ Attribute(world', last'.op) = DefaultGrid(last'.op, A, S)
              /\ world'.karel = world.karel
              /\ \A other \in GridOps \ {last'.op} :
                     Attribute(world', other) = Attribute(world, other)]_vars

\* ------------------------------------------------------------------ C26
\* Two grids of the same numbers of rows and of entries in each row.
SameShape(g, h) ==
    /\ Len(g) = Len(h)
    /\ \A i \in 1..Len(g) : Len(g[i]) = Len(h[i])

\* Every stored ball count of w is at least 0.
CountsNonNegative(w) ==
    \A i \in 1..Len(w.ball_counts) : \A j \in 1..Len(w.ball_counts[i]) :
        w.ball_counts[i][j] >= 0

\* The ball counts of v are those of w except, at most, at the cell p.
CountsEqualExceptAt(w, v, p) ==
    /\ SameShape(w.ball_counts, v.ball_counts)
    /\ \A i \in 1..Len(w.ball_counts) : \A j \in 1..Len(w.ball_counts[i]) :
           (i # Len(w.ball_counts) - p.street \/ j # p.avenue + 1) =>
               v.ball_counts[i][j] = w.ball_counts[i][j]

\* C26: in a run of exec_from of any tier, each invocation of an operation
\* of the tier (called without a position) leaves the size and both wall
\* grids unchanged, the robot in bounds and every ball count at least 0,
\* changes ball counts at most at the cell the robot occupies when the call
\* is made, and under "normal" and "super" leaves the color grid unchanged.
C26_TierRunFrame ==
    [][(run'.mode \in {"normal", "super", "ultra"} /\ last'.op \in TierNames(run'.mode)) =>
          /\ size(world') = size(world)
          /\ world'.horizontal_walls = world.horizontal_walls
          /\ world'.vertical_walls = world.vertical_walls
          /\ InSize(size(world'), world'.karel.position)
          /\ CountsNonNegative(world')
          /\ CountsEqualExceptAt(world, world', world.karel.position)
          /\ run'.mode \in {"normal", "super"} => world'.colors = world.colors]_vars

\* A "normal" run put a ball on the first cell and moved the robot east: the
\* ball stays behind on (0, 0), the robot stands on (1, 0).
C26_Witness ==
    /\ run.status = "running" /\ run.mode = "normal"
    /\ run.applied = {"put_ball", "move"}
    /\ last.op = "move" /\ last.err = OK
    /\ world.karel.position = Pos(1, 0)
    /\ ball_count(world, Some(Pos(0, 0))).val = 1
    /\ ball_count(world, Some(Pos(1, 0))).val = 0

\* ------------------------------------------------------------------ C27
\* The storage entries at which two grids of the same shape differ.
Differing(g, h) ==
    UNION {{<<i, j>> : j \in {k \in 1..Len(g[i]) : g[i][k] # h[i][k]}} : i \in 1..Len(g)}

\* C27: a successful set_is_blocked(w, position=p, direction=d) on an
\* internal edge writes one entry of one wall grid, the horizontal one for
\* north and south, the vertical one for east and west: that grid keeps its
\* shape and differs from before in exactly one entry when the edge held the
\* other value (in none when it held w already), is_blocked at (p, d) then
\* answers w, and the other wall grid, the ball counts, the colors, the size
\* and the robot are as before.  set_is_clear(w, ...) ends as
\* set_is_blocked(not w, ...) does, with the same World.
C27_WallWriteFrame ==
    [][/\ (last'.op = "set_is_blocked" /\ ExplicitEdge(last') /\ last'.err = OK) =>
              LET p   == last'.arg.position.val
                  d   == last'.arg.direction.val
                  was == is_blocked(world, Some(p), Some(d))
                  hor == d \in {"north", "south"}
                  old == IF hor THEN world.horizontal_walls ELSE world.vertical_walls
                  new == IF hor THEN world'.horizontal_walls ELSE world'.vertical_walls
              IN  (InSize(size(world), p) /\ InSize(size(world), Offset(p, d))) =>
                      /\ was.err = OK
                      /\ SameShape(old, new)
                      /\ Cardinality(Differing(old, new)) =
                             IF was.val = last'.arg.wall THEN 0 ELSE 1
                      /\ is_blocked(world', Some(p), Some(d)) = Answer(last'.arg.wall)
                      /\ hor => world'.vertical_walls = world.vertical_walls
                      /\ ~hor => world'.horizontal_walls = world.horizontal_walls
                      /\ world'.ball_counts = world.ball_counts
                      /\ world'.colors = world.colors
                      /\ size(world') = size(world)
                      /\ world'.karel = world.karel
       /\ last'.op = "set_is_clear" =>
              LET r == set_is_blocked(world, ~last'.arg.wall, last'.arg.position,
                                      last'.arg.direction)
              IN  last'.err = r.err /\ world' = r.w]_vars

\* set_is_blocked(True) on the south edge of a cell succeeded in a well-formed
\* World whose horizontal walls hold a wall and a free edge.
C27_Witness ==
    /\ last.op = "set_is_blocked" /\ ExplicitEdge(last) /\ last.err = OK
    /\ last.arg.wall /\ last.arg.direction.val = "south"
    /\ WellFormed(world)
    /\ InSize(size(world), Offset(last.arg.position.val, "south"))
    /\ \E i \in 1..Len(world.horizontal_walls) :
           \E j, k \in 1..Len(world.horizontal_walls[i]) :
               world.horizontal_walls[i][j] /\ ~world.horizontal_walls[i][k]

====
